---- MODULE Spec2Model ----
(***************************************************************************)
(* Feedback-driven style tuning loop of app_calligraphy.py: the SQLite     *)
(* event store (generations, feedback), the tuning file style_tuning.json, *)
(* the request handlers /render and /feedback, and the periodic            *)
(* training_job run by APScheduler's BackgroundScheduler.                  *)
(*                                                                         *)
(* Python floats are modelled as exact rationals <<n, d>> in lowest terms  *)
(* with d > 0.  Python dicts keyed by emotion label are functions; their   *)
(* insertion order is always the order of EMO_LABELS (the dicts are built  *)
(* by comprehensions over EMO_LABELS).                                     *)
(***************************************************************************)
EXTENDS Integers, Sequences, FiniteSets, TLC

(* ------------------------------ bounds --------------------------------- *)
MaxGen == 2
MaxFb == 2
MaxRuns == 2
MaxBatch == 10

(* --------------------------- exact rationals --------------------------- *)
Abs(x) == IF x < 0 THEN -x ELSE x

RECURSIVE GCD(_, _)
GCD(a, b) == IF b = 0 THEN a ELSE GCD(b, a % b)

Rat(n, d) ==
    LET g == GCD(Abs(n), Abs(d))
        s == IF d < 0 THEN -1 ELSE 1
    IN  <<(s * n) \div g, (s * d) \div g>>

RAdd(x, y) == Rat(x[1] * y[2] + y[1] * x[2], x[2] * y[2])
RSub(x, y) == Rat(x[1] * y[2] - y[1] * x[2], x[2] * y[2])
RMul(x, y) == Rat(x[1] * y[1], x[2] * y[2])
RDiv(x, y) == Rat(x[1] * y[2], x[2] * y[1])
RLt(x, y) == x[1] * y[2] < y[1] * x[2]
RLe(x, y) == x[1] * y[2] <= y[1] * x[2]
RAbs(x) == <<Abs(x[1]), x[2]>>
RInt(n) == <<n, 1>>
Zero == RInt(0)
One == RInt(1)

RECURSIVE RSum(_, _)
RSum(f, S) ==
    IF S = {} THEN Zero
    ELSE LET k == CHOOSE x \in S : TRUE IN RAdd(f[k], RSum(f, S \ {k}))

(* ----------------------- emotion analysis (heuristic) ------------------ *)
EMO_LABELS == <<"joy", "sad", "anger", "calm", "passion", "cold">>
Labels == {EMO_LABELS[i] : i \in 1..Len(EMO_LABELS)}
LabelIndex(k) == CHOOSE i \in 1..Len(EMO_LABELS) : EMO_LABELS[i] = k

pos_words == <<"joy", "happiness", "flutter", "light", "spring", "delight",
               "laughter", "sunshine", "hope">>
sad_words == <<"sad", "tears", "rain", "lonely", "solitude", "longing",
               "night", "winter">>
anger_words == <<"anger", "flame", "blaze", "explosion", "fierce", "resentment">>
calm_words == <<"still", "calm", "gentle", "wind", "lake", "subtle", "composed">>
passion_words == <<"passion", "red", "hot", "fire", "intense", "blaze">>
cold_words == <<"cold", "chilly", "cool", "indifferent", "clear">>

\* `kw in text`: substring test.  A text is the set of words it is made of;
\* the only keyword that is a substring of another keyword is "fire" (in "flame").
KwIn(kw, text) == kw \in text \/ (kw = "fire" /\ "flame" \in text)

\* bump(keys, label, w): score[label] += w for every keyword found in text
bump(keys, text, w) ==
    RMul(RInt(Cardinality({i \in 1..Len(keys) : KwIn(keys[i], text)})), w)

analyze_emotion(text) ==
    LET w == Rat(12, 10)
        bumped == [k \in Labels |->
            CASE k = "joy"     -> bump(pos_words, text, w)
              [] k = "sad"     -> bump(sad_words, text, w)
              [] k = "anger"   -> bump(anger_words, text, w)
              [] k = "calm"    -> bump(calm_words, text, w)
              [] k = "passion" -> bump(passion_words, text, w)
              [] k = "cold"    -> bump(cold_words, text, w)]
        score == IF RSum(bumped, Labels) = Zero
                 THEN [bumped EXCEPT !["calm"] = Rat(6, 10), !["joy"] = Rat(4, 10)]
                 ELSE bumped
        s == RSum(score, Labels)
    IN  [k \in Labels |-> RDiv(score[k], s)]

\* Texts submitted to /render
Texts == { {"happiness"},
           {"plain"},
           {"happiness", "hope", "tears", "anger"},
           {"flame", "tears"} }

(* ------------------------- tuning file (JSON) -------------------------- *)
\* Content of models/style_tuning.json: absent, empty (opened with "w" and not
\* yet flushed: it does not parse), or a JSON object (a dict).
NoDict == [k \in {} |-> Zero]
Absent == [kind |-> "absent", data |-> NoDict]
Truncated == [kind |-> "truncated", data |-> NoDict]
JsonFile(d) == [kind |-> "json", data |-> d]

\* {emo: 1.0 for emo in EMO_LABELS}
DefaultTuning == [k \in Labels |-> One]

\* tuning.get(k, 1.0)
Get(tuning, k) == IF k \in DOMAIN tuning THEN tuning[k] ELSE One

\* variant of load_tuning that returns the initial mapping without writing it
load_tuning_NoPersist(file) ==
    CASE file.kind = "json" ->
            [ok |-> TRUE, value |-> file.data, file |-> file, wrote |-> 0]
      [] file.kind = "absent" ->
            [ok |-> TRUE, value |-> DefaultTuning, file |-> file, wrote |-> 0]
      [] OTHER ->
            [ok |-> FALSE, value |-> NoDict, file |-> file, wrote |-> 0]

\* load_tuning(): the value returned (ok = FALSE: json.load raised), the file
\* it leaves behind and whether it wrote the initial mapping.
load_tuning(file) ==
    CASE file.kind = "json" ->
            [ok |-> TRUE, value |-> file.data, file |-> file, wrote |-> 0]
      [] file.kind = "absent" ->
            [ok |-> TRUE, value |-> DefaultTuning, file |-> JsonFile(DefaultTuning),
             wrote |-> 1]
      [] OTHER ->
            [ok |-> FALSE, value |-> NoDict, file |-> file, wrote |-> 0]

(* ------------------------ training_job: arithmetic --------------------- *)
\* variant of alpha: the smoothing factor 0.7
alpha_07 == Rat(7, 10)

lo == Rat(9, 10)
band == Rat(2, 10)
hi == RAdd(lo, band)
alpha == Rat(8, 10)

beta == Rat(2, 10)

\* variant of neutral: a category without data gets the rate 0
neutral_Zero == Zero

neutral == Rat(5, 10)

\* sorted(emo.items(), key=lambda x: x[1], reverse=True): a stable sort, so
\* equal scores keep the dict's order.
SortsBefore(emo, a, b) ==
    \/ RLt(emo[b], emo[a])
    \/ emo[a] = emo[b] /\ LabelIndex(a) < LabelIndex(b)

\* variant of top without the slice [:2]: every category of the row
top_NoSlice(emo) == DOMAIN emo

\* the keys of sorted(...)[:2]
top(emo) ==
    {k \in DOMAIN emo : Cardinality({j \in DOMAIN emo : SortsBefore(emo, j, k)}) < 2}

\* variant of emo_sum that adds the score whatever the satisfied flag is
RECURSIVE emo_sum_IgnoresSat(_, _)
emo_sum_IgnoresSat(rows, k) ==
    IF rows = <<>> THEN Zero
    ELSE LET emo == Head(rows)[1]
             add == IF k \in top(emo) THEN emo[k] ELSE Zero
         IN  RAdd(add, emo_sum_IgnoresSat(Tail(rows), k))
\* emo_sum[k] after the loop over rows; a row is <<emo, sat>>
RECURSIVE emo_sum(_, _)
emo_sum(rows, k) ==
    IF rows = <<>> THEN Zero
    ELSE LET emo == Head(rows)[1]
             sat == Head(rows)[2]
             add == IF k \in top(emo) THEN RMul(emo[k], RInt(sat)) ELSE Zero
         IN  RAdd(add, emo_sum(Tail(rows), k))

\* emo_cnt[k] after the loop over rows
RECURSIVE emo_cnt(_, _)
emo_cnt(rows, k) ==
    IF rows = <<>> THEN Zero
    ELSE LET emo == Head(rows)[1]
             add == IF k \in top(emo) THEN emo[k] ELSE Zero
         IN  RAdd(add, emo_cnt(Tail(rows), k))

sat_rate(rows, k) ==
    IF RLt(Zero, emo_cnt(rows, k))
    THEN RDiv(emo_sum(rows, k), emo_cnt(rows, k))
    ELSE neutral

\* variant of target with the slope inverted
target_Inverted(rate) == RSub(hi, RMul(band, rate))

\* target = 0.9 + 0.2 * sat_rate[k]
target(rate) == RAdd(lo, RMul(band, rate))

\* variant of ema that adds the target's share without scaling the old weight
ema_Additive(old, tgt) == RAdd(old, RMul(beta, tgt))

\* tuning[k] = float(0.8 * tuning.get(k, 1.0) + 0.2 * target)
ema(old, tgt) == RAdd(RMul(alpha, old), RMul(beta, tgt))

\* variant of the loop that builds a new dict of the observed categories only
updated_tuning_ObservedOnly(tuning, rows) ==
    [k \in {l \in Labels : RLt(Zero, emo_cnt(rows, l))} |->
        ema(Get(tuning, k), target(sat_rate(rows, k)))]

\* the dict `tuning` after the loop `for k in EMO_LABELS`
updated_tuning(tuning, rows) ==
    [k \in DOMAIN tuning \cup Labels |->
        IF k \in Labels
        THEN ema(Get(tuning, k), target(sat_rate(rows, k)))
        ELSE tuning[k]]

(* ------------------------------ event store ---------------------------- *)
\* variant of join that keeps only the most recent feedback of a generation
RECURSIVE join_LastOnly(_, _)
join_LastOnly(fb, gens) ==
    IF fb = <<>> THEN <<>>
    ELSE LET f == Head(fb)
             hit == {i \in 1..Len(gens) : gens[i].id = f.generation_id}
             later == {j \in 2..Len(fb) : fb[j].generation_id = f.generation_id}
             rest == join_LastOnly(Tail(fb), gens)
         IN  IF hit = {} \/ later # {} THEN rest
             ELSE LET g == gens[CHOOSE i \in hit : TRUE]
                  IN  <<<<g.emo, f.satisfied>>>> \o rest

\* SELECT g.emo_json, f.satisfied FROM feedback f JOIN generations g
\*   ON g.id = f.generation_id
RECURSIVE join(_, _)
join(fb, gens) ==
    IF fb = <<>> THEN <<>>
    ELSE LET f == Head(fb)
             hit == {i \in 1..Len(gens) : gens[i].id = f.generation_id}
             rest == join(Tail(fb), gens)
         IN  IF hit = {} THEN rest
             ELSE LET g == gens[CHOOSE i \in hit : TRUE]
                  IN  <<<<g.emo, f.satisfied>>>> \o rest

(* -------------------------------- state -------------------------------- *)
VARIABLES
    started,      \* the module has been imported (lines 41-362 have run)
    TUNING,       \* the global TUNING = load_tuning()
    tuningFile,   \* models/style_tuning.json
    generations,  \* table generations, in id order
    feedback,     \* table feedback, in id order
    job,          \* the executor's instances of training_job
    runs,         \* instances of training_job started so far
    lastTick,     \* what the scheduler did at its last tick
    resp,         \* the last HTTP response sent
    inits,        \* history: times load_tuning wrote the initial mapping
    last          \* history: rows, loaded and saved dict of the last save_tuning

vars == <<started, TUNING, tuningFile, generations, feedback, job, runs, lastTick,
          resp, inits, last>>

\* threads of the scheduler's executor that the model follows
Workers == 2
\* APScheduler's default for a job added without max_instances
max_instances == 1

\* values of the form fields generation_id and satisfied (any int is accepted)
GenIds == 1..MaxGen
SatValues == {0, 1, 2}

IdleJob == [pc |-> "idle", rows |-> <<>>, old |-> NoDict, tuning |-> NoDict]
NoResp == [op |-> "none", status |-> 0, gen_id |-> 0, tuning |-> NoDict]
NoSave == [rows |-> <<>>, old |-> NoDict, new |-> NoDict]

\* The process starts with an empty database and either no tuning file or the
\* one a previous process initialised.
Init ==
    /\ started = FALSE
    /\ TUNING = NoDict
    /\ tuningFile \in {Absent, JsonFile(DefaultTuning)}
    /\ generations = <<>>
    /\ feedback = <<>>
    /\ job = [i \in 1..Workers |-> IdleJob]
    /\ runs = 0
    /\ lastTick = "none"
    /\ resp = NoResp
    /\ inits = 0
    /\ last = NoSave

\* Module import: init_db(), TUNING = load_tuning(), scheduler.start()
Startup ==
    /\ ~started
    /\ LET r == load_tuning(tuningFile)
       IN  /\ r.ok
           /\ TUNING' = r.value
           /\ tuningFile' = r.file
           /\ inits' = inits + r.wrote
    /\ started' = TRUE
    /\ UNCHANGED <<generations, feedback, job, runs, lastTick, resp, last>>

\* variant of save_generation_record that returns the row id known before
\* the INSERT
save_generation_record_StaleId(gens, text, emo) ==
    LET gen_id == IF gens = <<>> THEN 1 ELSE gens[Len(gens)].id + 1
    IN  [gen_id |-> gen_id - 1,
         table |-> Append(gens, [id |-> gen_id, text |-> text, emo |-> emo])]

\* save_generation_record: INSERT with an AUTOINCREMENT id, returns lastrowid
save_generation_record(gens, text, emo) ==
    LET gen_id == IF gens = <<>> THEN 1 ELSE gens[Len(gens)].id + 1
    IN  [gen_id |-> gen_id,
         table |-> Append(gens, [id |-> gen_id, text |-> text, emo |-> emo])]

\* save_feedback: INSERT; the FOREIGN KEY clause is not enforced by SQLite
\* unless PRAGMA foreign_keys is set, and db_conn() does not set it.
save_feedback(fb, generation_id, satisfied) ==
    Append(fb, [id |-> Len(fb) + 1, generation_id |-> generation_id,
                satisfied |-> satisfied])

\* POST /render
render_endpoint(text) ==
    /\ started
    /\ Len(generations) < MaxGen
    /\ LET emo == analyze_emotion(text)
           r == load_tuning(tuningFile)
       IN  IF r.ok
           THEN LET s == save_generation_record(generations, text, emo)
                IN  /\ tuningFile' = r.file
                    /\ inits' = inits + r.wrote
                    /\ generations' = s.table
                    /\ resp' = [op |-> "render", status |-> 200,
                                gen_id |-> s.gen_id, tuning |-> r.value]
           ELSE /\ resp' = [op |-> "render", status |-> 500,
                            gen_id |-> 0, tuning |-> NoDict]
                /\ UNCHANGED <<tuningFile, generations, inits>>
    /\ UNCHANGED <<started, TUNING, feedback, job, runs, lastTick, last>>

\* POST /feedback
feedback_endpoint(generation_id, satisfied) ==
    /\ started
    /\ Len(feedback) < MaxFb
    /\ feedback' = save_feedback(feedback, generation_id, satisfied)
    /\ resp' = [op |-> "feedback", status |-> 200,
                gen_id |-> generation_id, tuning |-> NoDict]
    /\ UNCHANGED <<started, TUNING, tuningFile, generations, job, runs, lastTick,
                   inits, last>>

(* ------------------------ scheduler and training_job ------------------- *)
Running == {i \in 1..Workers : job[i].pc # "idle"}
Free == {i \in 1..Workers : job[i].pc = "idle"}

\* variant of MaySubmit without the max_instances limit
MaySubmit_NoLimit == Free # {}

\* may the scheduler submit another instance of the job?
MaySubmit == Cardinality(Running) < max_instances /\ Free # {}

\* The interval trigger fires: the job is submitted unless max_instances
\* instances are already running, in which case this run is skipped.
Tick ==
    /\ started
    /\ runs < MaxRuns
    /\ IF MaySubmit
       THEN LET i == CHOOSE w \in Free : \A v \in Free : w <= v
            IN  /\ job' = [job EXCEPT ![i] = [IdleJob EXCEPT !.pc = "fetch"]]
                /\ runs' = runs + 1
                /\ lastTick' = "run"
       ELSE /\ lastTick' = "skipped"
            /\ UNCHANGED <<job, runs>>
    /\ UNCHANGED <<started, TUNING, tuningFile, generations, feedback, resp,
                   inits, last>>

\* variant of Fetch without the `if not rows: return`
Fetch_NoEmptyCheck(i) ==
    /\ job[i].pc = "fetch"
    /\ job' = [job EXCEPT ![i] =
            [IdleJob EXCEPT !.pc = "load", !.rows = join(feedback, generations)]]
    /\ UNCHANGED <<started, TUNING, tuningFile, generations, feedback, runs,
                   lastTick, resp, inits, last>>

\* lines 317-327: the join query; no rows: return
Fetch(i) ==
    /\ job[i].pc = "fetch"
    /\ LET rows == join(feedback, generations)
       IN  job' = [job EXCEPT ![i] =
                IF rows = <<>> THEN IdleJob
                ELSE [IdleJob EXCEPT !.pc = "load", !.rows = rows]]
    /\ UNCHANGED <<started, TUNING, tuningFile, generations, feedback, runs,
                   lastTick, resp, inits, last>>

\* lines 329-354: the rates, load_tuning() and the EMA loop; an exception of
\* load_tuning ends the run
\* variant of Load that saves nothing new when the rows are those of the
\* last save (an idempotent updater)
Load_SkipSameRows(i) ==
    /\ job[i].pc = "load"
    /\ LET r == load_tuning(tuningFile)
       IN  /\ tuningFile' = r.file
           /\ inits' = inits + r.wrote
           /\ job' = [job EXCEPT ![i] =
                IF r.ok
                THEN [pc |-> "open", rows |-> job[i].rows, old |-> r.value,
                      tuning |-> IF job[i].rows = last.rows THEN r.value
                                 ELSE updated_tuning(r.value, job[i].rows)]
                ELSE IdleJob]
    /\ UNCHANGED <<started, TUNING, generations, feedback, runs, lastTick, resp, last>>

Load(i) ==
    /\ job[i].pc = "load"
    /\ LET r == load_tuning(tuningFile)
       IN  /\ tuningFile' = r.file
           /\ inits' = inits + r.wrote
           /\ job' = [job EXCEPT ![i] =
                IF r.ok
                THEN [pc |-> "open", rows |-> job[i].rows, old |-> r.value,
                      tuning |-> updated_tuning(r.value, job[i].rows)]
                ELSE IdleJob]
    /\ UNCHANGED <<started, TUNING, generations, feedback, runs, lastTick, resp, last>>

\* save_tuning, line 139: open(TUNING_JSON, "w") truncates the file
Open(i) ==
    /\ job[i].pc = "open"
    /\ tuningFile' = Truncated
    /\ job' = [job EXCEPT ![i].pc = "dump"]
    /\ UNCHANGED <<started, TUNING, generations, feedback, runs, lastTick, resp,
                   inits, last>>

\* save_tuning, line 140: json.dump and the close that flushes it
Dump(i) ==
    /\ job[i].pc = "dump"
    /\ tuningFile' = JsonFile(job[i].tuning)
    /\ job' = [job EXCEPT ![i] = IdleJob]
    /\ last' = [rows |-> job[i].rows, old |-> job[i].old, new |-> job[i].tuning]
    /\ UNCHANGED <<started, TUNING, generations, feedback, runs, lastTick, resp, inits>>

training_job == \E i \in 1..Workers : Fetch(i) \/ Load(i) \/ Open(i) \/ Dump(i)

Next ==
    \/ Startup
    \/ \E text \in Texts : render_endpoint(text)
    \/ \E g \in GenIds, s \in SatValues : feedback_endpoint(g, s)
    \/ Tick
    \/ training_job

Spec == Init /\ [][Next]_vars

\* Stored event-store contents with a training run that reads them: the
\* database file outlives the process, so a process may start on these.
BatchInit ==
    /\ started = FALSE
    /\ TUNING = NoDict
    /\ tuningFile \in {Absent, JsonFile(DefaultTuning)}
    /\ \E text \in Texts :
         generations = save_generation_record(<<>>, text, analyze_emotion(text)).table
    /\ \E n \in 1..MaxBatch, s \in SatValues :
         feedback = [j \in 1..n |-> [id |-> j, generation_id |-> 1, satisfied |-> s]]
    /\ job = [i \in 1..Workers |-> IdleJob]
    /\ runs = 0
    /\ lastTick = "none"
    /\ resp = NoResp
    /\ inits = 0
    /\ last = NoSave

BatchNext == Startup \/ Tick \/ training_job

BatchSpec == BatchInit /\ [][BatchNext]_vars

(* ================================ claims =============================== *)

\* C1: the feedback/generation join read by the Updater returns exactly one
\* (emotion_data, satisfied) entry per stored feedback record, also for
\* feedback whose generation_id matches no stored generation.
C1_JoinOnePerFeedback ==
    LET rows == join(feedback, generations)
    IN  /\ Len(rows) = Len(feedback)
        /\ \A j \in 1..Len(feedback) :
             /\ rows[j][2] = feedback[j].satisfied
             /\ \E g \in 1..Len(generations) :
                  /\ generations[g].id = feedback[j].generation_id
                  /\ rows[j][1] = generations[g].emo

\* C2: save_tuning is atomic with respect to load_tuning: whenever a request
\* thread may load, the load succeeds and the persisted file parses as the
\* full six-category mapping.
C2_SaveAtomic ==
    started =>
        /\ load_tuning(tuningFile).ok
        /\ DOMAIN load_tuning(tuningFile).value = Labels
        /\ ~(resp.op = "render" /\ resp.status = 500)

\* C3: at most one execution of training_job is in progress at any time; a
\* tick that fires during a run is skipped.
C3_NoOverlap == Cardinality(Running) <= 1

\* C3 witness: a tick fired while a run was in progress and was skipped.
C3_Witness == lastTick = "skipped" /\ Cardinality(Running) = 1

\* C4: a run of training_job that finds zero rows ends without loading or
\* saving the tuning file, which keeps its content.
C4_EmptyRunIsNoop ==
    [][\A i \in 1..Workers :
         (job[i].pc = "fetch" /\ job'[i].pc # "fetch"
            /\ join(feedback, generations) = <<>>)
         => (job'[i].pc = "idle" /\ tuningFile' = tuningFile /\ last' = last)]_vars

\* C4 witness: a run has come and gone with no feedback stored and the file
\* still holds the initial mapping.
C4_Witness ==
    /\ runs > 0 /\ Running = {} /\ feedback = <<>>
    /\ tuningFile = JsonFile(DefaultTuning) /\ last = NoSave

\* C5: load_tuning with no tuning file returns all six categories at 1.0 and
\* persists exactly that mapping; a later load returns what the file holds
\* and writes nothing.
C5_LoadInitialises ==
    [][/\ (tuningFile = Absent /\ ~started /\ started')
            => (TUNING' = DefaultTuning /\ tuningFile' = JsonFile(DefaultTuning)
                /\ inits' = 1)
       /\ (tuningFile.kind = "json" /\ generations' # generations)
            => (resp'.tuning = tuningFile.data /\ tuningFile' = tuningFile
                /\ inits' = inits)]_vars

\* C5 witness: the first load created the file and a second load (of a
\* /render request) returned the same six weights of 1.0.
C5_Witness ==
    /\ inits = 1 /\ TUNING = DefaultTuning
    /\ resp.op = "render" /\ resp.status = 200 /\ resp.tuning = TUNING
    /\ tuningFile = JsonFile(DefaultTuning)

(* helpers of the claims about one save *)
\* a save has completed and the file holds what it wrote
Saved == last.rows # <<>> /\ tuningFile.kind = "json"
\* rows whose generation gives category k a positive score
Appears(rows, k) == {j \in 1..Len(rows) : RLt(Zero, rows[j][1][k])}
\* rows in which k is one of the top 2 with a positive score
Contributes(rows, k) == {j \in Appears(rows, k) : k \in top(rows[j][1])}
InBand(w) == RLe(lo, w) /\ RLe(w, hi)
Before(k) == Get(last.old, k)
After(k) == tuningFile.data[k]

\* C6 as claimed: every category that appears (positive score) in the
\* feedback's generations with all flags true ends strictly above its prior
\* in-band weight and not above hi.
C6_AppearsAllTrue ==
    Saved => \A k \in Labels :
        (/\ Appears(last.rows, k) # {}
         /\ \A j \in Appears(last.rows, k) : last.rows[j][2] = 1
         /\ InBand(Before(k)))
        => (RLt(Before(k), After(k)) /\ RLe(After(k), hi))

\* C6 amended: every category that is among the top 2 with a positive score
\* in at least one feedback row, with all such rows satisfied, ends strictly
\* above its prior weight (in the band, below hi) and not above hi.
C6_TopAllTrue ==
    Saved => \A k \in Labels :
        (/\ Contributes(last.rows, k) # {}
         /\ \A j \in Contributes(last.rows, k) : last.rows[j][2] = 1
         /\ InBand(Before(k)) /\ Before(k) # hi)
        => (RLt(Before(k), After(k)) /\ RLe(After(k), hi))

C6_Witness ==
    /\ Saved
    /\ \E k \in Labels :
        /\ Contributes(last.rows, k) # {}
        /\ \A j \in Contributes(last.rows, k) : last.rows[j][2] = 1
        /\ InBand(Before(k)) /\ RLt(One, Before(k))
        /\ RLt(Before(k), After(k))

\* C7 as claimed: every category that appears (positive score) in the
\* feedback's generations with all flags false ends strictly below its prior
\* in-band weight and not below lo.
C7_AppearsAllFalse ==
    Saved => \A k \in Labels :
        (/\ Appears(last.rows, k) # {}
         /\ \A j \in Appears(last.rows, k) : last.rows[j][2] = 0
         /\ InBand(Before(k)))
        => (RLt(After(k), Before(k)) /\ RLe(lo, After(k)))

\* C7 amended: every category that is among the top 2 with a positive score
\* in at least one feedback row, with all such rows unsatisfied, ends strictly
\* below its prior weight (in the band, above lo) and not below lo.
C7_TopAllFalse ==
    Saved => \A k \in Labels :
        (/\ Contributes(last.rows, k) # {}
         /\ \A j \in Contributes(last.rows, k) : last.rows[j][2] = 0
         /\ InBand(Before(k)) /\ Before(k) # lo)
        => (RLt(After(k), Before(k)) /\ RLe(lo, After(k)))

C7_Witness ==
    /\ Saved
    /\ \E k \in Labels :
        /\ Contributes(last.rows, k) # {}
        /\ \A j \in Contributes(last.rows, k) : last.rows[j][2] = 0
        /\ InBand(Before(k)) /\ RLt(Before(k), One)
        /\ RLt(After(k), Before(k))

\* C8: in every run the weight of each category moves toward the target
\* lo + (hi - lo) * r of its rate r: the distance shrinks to at most 4/5 of
\* what it was and the weight does not cross the target.
C8_EmaContracts ==
    Saved => \A k \in Labels :
        LET T == target(sat_rate(last.rows, k))
            dOld == RAbs(RSub(Before(k), T))
            dNew == RAbs(RSub(After(k), T))
        IN  /\ RLe(RMul(RInt(5), dNew), RMul(RInt(4), dOld))
            /\ RLe(Before(k), T) => RLe(After(k), T)
            /\ RLe(T, Before(k)) => RLe(T, After(k))

\* C8 witness: two runs in a row at rate 0 for joy: 1.0 -> 0.98 -> 0.964.
C8_Witness ==
    /\ Saved /\ runs = 2 /\ Running = {}
    /\ sat_rate(last.rows, "joy") = Zero
    /\ Before("joy") = Rat(980, 1000)
    /\ After("joy") = Rat(964, 1000)

\* C9: from all weights 1.0, one run over 10 satisfied feedback rows of a
\* joy-only generation gives joy 1.02, and a second run over the same rows
\* gives 1.036.
C9_WorkedExample ==
    (/\ started /\ Running = {}
     /\ generations[1].text = {"happiness"}
     /\ Len(feedback) = 10
     /\ \A j \in 1..Len(feedback) : feedback[j].satisfied = 1)
    => /\ runs = 1 => tuningFile.data["joy"] = Rat(102, 100)
       /\ runs = 2 => tuningFile.data["joy"] = Rat(1036, 1000)

C9_Witness ==
    /\ started /\ Running = {} /\ runs = 2
    /\ generations[1].text = {"happiness"}
    /\ Len(feedback) = 10
    /\ \A j \in 1..Len(feedback) : feedback[j].satisfied = 1
    /\ last.old["joy"] = Rat(102, 100)
    /\ tuningFile.data["joy"] = Rat(1036, 1000)

\* C10: whenever no save_tuning is between its open and its close, the
\* persisted tuning file holds exactly the six categories as keys.
C10_SixKeys ==
    (started /\ \A i \in 1..Workers : job[i].pc # "dump")
    => (tuningFile.kind = "json" /\ DOMAIN tuningFile.data = Labels)

\* C10 witness: a run has saved weights other than the initial ones.
C10_Witness ==
    /\ Saved /\ Running = {}
    /\ tuningFile.data # DefaultTuning
    /\ DOMAIN tuningFile.data = Labels

\* C11: from the initial all-1.0 mapping, every persisted weight stays within
\* the band [0.9, 1.1] whatever requests and runs have happened.
C11_WeightsInBand ==
    tuningFile.kind = "json" =>
        \A k \in Labels : InBand(Get(tuningFile.data, k))

\* C12: in every run the satisfaction rate computed for each of the six
\* categories lies in [0, 1], for the feedback that requests have stored.
C12_RateInUnitInterval ==
    \A i \in 1..Workers : job[i].pc \in {"load", "open", "dump"} =>
        \A k \in Labels :
            /\ RLe(Zero, sat_rate(job[i].rows, k))
            /\ RLe(sat_rate(job[i].rows, k), One)

(* ---------------- a tuning file that is not the expected mapping ------- *)
\* a JSON object with one of the six categories missing
PartialTuning == [k \in Labels \ {"cold"} |-> One]

\* The process starts on a tuning file that exists but is not the six-category
\* mapping: it does not parse, or it parses and lacks a category.
MalformedInit ==
    /\ started = FALSE
    /\ TUNING = NoDict
    /\ tuningFile \in {Truncated, JsonFile(PartialTuning)}
    /\ generations = <<>>
    /\ feedback = <<>>
    /\ job = [i \in 1..Workers |-> IdleJob]
    /\ runs = 0
    /\ lastTick = "none"
    /\ resp = NoResp
    /\ inits = 0
    /\ last = NoSave

MalformedSpec == MalformedInit /\ [][Next]_vars

\* the categories for which tuning.get(k, 1.0) substitutes the default
Defaulted(tuning) == {k \in Labels : k \notin DOMAIN tuning}

\* C13: a tuning file that is not the six-category mapping makes load_tuning
\* and its consumers fail: no load returns, no /render answers 200 with, and
\* no training run saves from, a mapping in which a category is defaulted.
C13_MalformedFails ==
    /\ started => Defaulted(TUNING) = {}
    /\ (resp.op = "render" /\ resp.status = 200) => Defaulted(resp.tuning) = {}
    /\ last # NoSave => Defaulted(last.old) = {}

(* ----------------------- I/O failures in training_job ------------------ *)
\* lines 317-324: the connection or the query raises; the exception ends the run
FetchFail(i) ==
    /\ job[i].pc = "fetch"
    /\ job' = [job EXCEPT ![i] = IdleJob]
    /\ UNCHANGED <<started, TUNING, tuningFile, generations, feedback, runs,
                   lastTick, resp, inits, last>>

\* save_tuning, line 139: open() raises (permissions, missing directory); the
\* file is untouched
OpenFail(i) ==
    /\ job[i].pc = "open"
    /\ job' = [job EXCEPT ![i] = IdleJob]
    /\ UNCHANGED <<started, TUNING, tuningFile, generations, feedback, runs,
                   lastTick, resp, inits, last>>

\* save_tuning, line 140: the write behind json.dump or the flush at close
\* raises (disk full, I/O error); the file was truncated by open() and stays so
DumpFail(i) ==
    /\ job[i].pc = "dump"
    /\ job' = [job EXCEPT ![i] = IdleJob]
    /\ UNCHANGED <<started, TUNING, tuningFile, generations, feedback, runs,
                   lastTick, resp, inits, last>>

IOFailure == \E i \in 1..Workers : FetchFail(i) \/ OpenFail(i) \/ DumpFail(i)

FaultNext == Next \/ IOFailure

FaultSpec == Init /\ [][FaultNext]_vars

\* C14: a run of training_job that ends, by completing or by an I/O failure,
\* leaves a tuning file that parses and holds either what the run computed or
\* what the file held before the run, and the next tick can start a run.
C14_AbortKeepsTuning ==
    [][\A i \in 1..Workers :
         (job[i].pc # "idle" /\ job'[i].pc = "idle")
         => /\ IF job[i].pc = "dump"
               THEN tuningFile' \in {JsonFile(job[i].tuning), JsonFile(job[i].old)}
               ELSE tuningFile' = tuningFile /\ tuningFile.kind = "json"
            /\ Cardinality({w \in 1..Workers : job'[w].pc # "idle"}) < max_instances
      ]_vars

\* C15: the generation ids are pairwise distinct and increase in the order of
\* the inserts, and the id a /render request got back is the id of the
\* record it stored.
C15_FreshIds ==
    /\ \A a, b \in 1..Len(generations) :
         a < b => generations[a].id < generations[b].id
    /\ (resp.op = "render" /\ resp.status = 200)
         => generations[Len(generations)].id = resp.gen_id

\* C15 witness: two generations stored, the second request got id 2.
C15_Witness ==
    /\ Len(generations) = 2
    /\ generations[1].id = 1 /\ generations[2].id = 2
    /\ resp.op = "render" /\ resp.status = 200 /\ resp.gen_id = 2

(* ------------- training runs over a stored database and file ----------- *)
\* weights an earlier process saved: joy after one all-satisfied run, cold
\* after one all-unsatisfied run
PriorTuning ==
    [DefaultTuning EXCEPT !["joy"] = Rat(102, 100), !["cold"] = Rat(98, 100)]

\* The process starts on the database and the tuning file that earlier
\* processes left: both outlive the process.
StoreInit ==
    /\ started = FALSE
    /\ TUNING = NoDict
    /\ tuningFile \in {JsonFile(DefaultTuning), JsonFile(PriorTuning)}
    /\ \E n \in 0..MaxGen : \E ts \in [1..n -> Texts] :
         generations = [j \in 1..n |->
                          [id |-> j, text |-> ts[j], emo |-> analyze_emotion(ts[j])]]
    /\ \E n \in 0..MaxFb : \E gs \in [1..n -> GenIds] : \E ss \in [1..n -> SatValues] :
         feedback = [j \in 1..n |->
                       [id |-> j, generation_id |-> gs[j], satisfied |-> ss[j]]]
    /\ job = [i \in 1..Workers |-> IdleJob]
    /\ runs = 0
    /\ lastTick = "none"
    /\ resp = NoResp
    /\ inits = 0
    /\ last = NoSave

StoreSpec == StoreInit /\ [][BatchNext]_vars

\* C16: in a run with at least one row, a category that is in no row's top 2
\* with a positive score gets the weight 0.8 * old + 0.2 * 1.0: it moves
\* toward 1.0 and is unchanged only when it already equals 1.0.
C16_NeutralPull ==
    Saved => \A k \in Labels :
        Contributes(last.rows, k) = {}
        => /\ After(k) = RAdd(RMul(Rat(4, 5), Before(k)), Rat(1, 5))
           /\ (After(k) = Before(k)) <=> (Before(k) = One)
           /\ RLe(RAbs(RSub(After(k), One)), RAbs(RSub(Before(k), One)))

\* C16 witness: cold, with no data, is pulled from 0.98 to 0.984.
C16_Witness ==
    /\ Saved
    /\ Contributes(last.rows, "cold") = {}
    /\ Before("cold") = Rat(98, 100)
    /\ After("cold") = Rat(984, 1000)

\* the category with the highest score among S, the earliest of EMO_LABELS
\* among equals
Best(emo, S) ==
    CHOOSE k \in S : \A j \in S \ {k} :
        \/ RLt(emo[j], emo[k])
        \/ emo[j] = emo[k] /\ LabelIndex(k) < LabelIndex(j)
Top2(emo) ==
    LET first == Best(emo, Labels)
    IN  {first, Best(emo, Labels \ {first})}
\* numerator and denominator of the claimed rate of k over all rows
Num(rows, k) ==
    RSum([j \in 1..Len(rows) |->
            IF k \in Top2(rows[j][1])
            THEN RMul(rows[j][1][k], RInt(rows[j][2])) ELSE Zero],
         1..Len(rows))
Den(rows, k) ==
    RSum([j \in 1..Len(rows) |->
            IF k \in Top2(rows[j][1]) THEN rows[j][1][k] ELSE Zero],
         1..Len(rows))

\* C17: the rate a saving run uses for a category is numerator/denominator
\* summed over all feedback rows, where a row contributes score*satisfied and
\* score only for the 2 highest-scoring categories of its generation (ties
\* in EMO_LABELS order) and nothing for any other category, positive or not.
C17_WeightedTop2 ==
    Saved => \A k \in Labels :
        RLt(Zero, Den(last.rows, k))
        => After(k) =
             RAdd(RMul(Rat(4, 5), Before(k)),
                  RMul(Rat(1, 5),
                       RAdd(Rat(9, 10),
                            RMul(Rat(1, 5),
                                 RDiv(Num(last.rows, k), Den(last.rows, k))))))

\* C17 witness: anger is third with a positive score in an unsatisfied row
\* and ties for the top 2 in a satisfied row, so its rate is 1, not 4/7.
C17_Witness ==
    /\ Saved
    /\ Len(last.rows) = 2
    /\ \E a, b \in 1..2 :
         /\ RLt(Zero, last.rows[a][1]["anger"])
         /\ "anger" \notin Top2(last.rows[a][1])
         /\ last.rows[a][2] = 0
         /\ "anger" \in Top2(last.rows[b][1])
         /\ last.rows[b][1]["anger"] = last.rows[b][1]["passion"]
         /\ "passion" \notin Top2(last.rows[b][1])
         /\ last.rows[b][2] = 1
    /\ Before("anger") = One
    /\ After("anger") = Rat(102, 100)

\* C18: one saving run changes a weight by exactly (1 - alpha) * |target - old|,
\* by at most 0.04 when the prior weight is within [0.9, 1.1], whatever the
\* feedback rows hold, and never brings a weight to zero.
C18_BoundedDrift ==
    Saved => \A k \in Labels :
        LET change == RAbs(RSub(After(k), Before(k)))
            tgt == target(sat_rate(last.rows, k))
        IN  /\ change = RMul(Rat(1, 5), RAbs(RSub(tgt, Before(k))))
            /\ InBand(Before(k)) => RLe(change, Rat(4, 100))
            /\ RLt(Zero, After(k))

\* the mapping after n EMA steps over the same rows, each step written out
RECURSIVE Steps(_, _, _)
Steps(n, tuning, rows) ==
    IF n = 0 THEN tuning
    ELSE LET prev == Steps(n - 1, tuning, rows)
         IN  [k \in Labels |->
                RAdd(RMul(Rat(4, 5), prev[k]),
                     RMul(Rat(1, 5), target(sat_rate(rows, k))))]

\* C19: over an unchanged feedback history every completed run applies the
\* EMA step again (n runs leave the file n steps from the mapping the process
\* started with), and a saving run leaves a weight unchanged if and only if
\* the weight equals the category's target.
C19_NotIdempotent ==
    LET rows == join(feedback, generations)
    IN  /\ (started /\ Running = {} /\ rows # <<>>)
             => tuningFile = JsonFile(Steps(runs, TUNING, rows))
        /\ Saved => \A k \in Labels :
             (After(k) = Before(k)) <=> (Before(k) = target(sat_rate(last.rows, k)))

\* C19 witness: two completed runs over the same rows, the second one moving
\* joy again (1.0 -> 1.02 -> 1.036) and leaving calm, at its target, alone.
C19_Witness ==
    /\ runs = 2 /\ Running = {} /\ Saved
    /\ TUNING = DefaultTuning
    /\ last.rows = join(feedback, generations)
    /\ Before("joy") = Rat(102, 100)
    /\ After("joy") = Rat(1036, 1000)
    /\ Before("calm") = One /\ After("calm") = One

\* the satisfied flags of all feedback records, summed
SatTotal ==
    RSum([j \in 1..Len(feedback) |-> RInt(feedback[j].satisfied)],
         1..Len(feedback))

\* C20: when all feedback records reference one stored generation, a saving
\* run over them uses, for each of that generation's top-2 categories with a
\* positive score, the rate (sum of all the flags) / (number of records):
\* every record counts, not only the most recent one.
C20_EveryFeedbackCounts ==
    (/\ Saved
     /\ last.rows = join(feedback, generations)
     /\ \A j \in 1..Len(feedback) :
          /\ feedback[j].generation_id = feedback[1].generation_id
          /\ feedback[j].generation_id \in 1..Len(generations))
    => LET emo == generations[feedback[1].generation_id].emo
       IN  \A k \in Top2(emo) :
             RLt(Zero, emo[k])
             => After(k) =
                  RAdd(RMul(Rat(4, 5), Before(k)),
                       RMul(Rat(1, 5),
                            RAdd(Rat(9, 10),
                                 RMul(Rat(1, 5),
                                      RDiv(SatTotal, RInt(Len(feedback)))))))

\* C20 witness: two records on generation 1, satisfied then unsatisfied, give
\* joy the rate 1/2 and not 0: from 1.02 it moves to 1.016.
C20_Witness ==
    /\ Saved
    /\ Len(feedback) = 2
    /\ feedback[1].generation_id = 1 /\ feedback[2].generation_id = 1
    /\ feedback[1].satisfied = 1 /\ feedback[2].satisfied = 0
    /\ Len(last.rows) = 2
    /\ RLt(Zero, generations[1].emo["joy"])
    /\ Before("joy") = Rat(102, 100)
    /\ After("joy") = Rat(1016, 1000)

====
